---- MODULE Spec2Model ----
(***************************************************************************)
(* cleanup-events: bulk deletion of aged Kubernetes Event objects.         *)
(* Model of the current version of the program (second package block of    *)
(* src/main.go, lines 125-305): main, createClientSet, cleanupAllEvents,   *)
(* cleanupEvents and opWithRetries.                                        *)
(*                                                                         *)
(* The cluster is the environment: every API call (ListNamespaces,         *)
(* ListEvents, DeleteEvent) answers with a nondeterministically chosen     *)
(* outcome.  Time is counted in seconds; the zero time.Time is 0.          *)
(***************************************************************************)
EXTENDS Integers, Sequences, FiniteSets, TLC

\* ------------------------------------------------------------------ bounds
MaxNamespaces == 2   \* namespaces returned by ListNamespaces
MaxEvents == 2       \* events returned by one ListEvents call
MaxRetries == 1      \* largest value of the -retries flag explored
MaxTicks == 1        \* seconds the clock may advance during a run

\* ------------------------------------------------------- program constants
MinDuration == 30    \* src/main.go:170  (30*time.Second)
BaseDelayMs == 50    \* src/main.go:302  (50 * time.Millisecond)
ProgressEvery == 500 \* src/main.go:287  ((i+1)%500 == 0)
Now0 == 40           \* clock reading at process start (any value > MinDuration)

\* ------------------------------------------------------------ value domains
Durations == {MinDuration - 1, MinDuration}
RetriesSet == (0 - 1) .. MaxRetries
ListErrors == {"ServerTimeout", "Forbidden"}   \* errors of eventsClient.List
DeleteErrors == {"ServerTimeout"}             \* errors of eventsClient.Delete
ApiErrors == ListErrors \cup DeleteErrors
NoErr == "nil"
NotFound == "NotFound"
Success == "Success"

\* Timestamps of events lie around the earliest cutoff, Now0 - MinDuration:
\* never observed and created at it; observed at it and created after it;
\* observed after it and created at it.
EarliestCutoff == Now0 - MinDuration
EventKinds ==
    {[CreationTimestamp |-> EarliestCutoff, LastTimestamp |-> 0],
     [CreationTimestamp |-> EarliestCutoff + 1, LastTimestamp |-> EarliestCutoff],
     [CreationTimestamp |-> EarliestCutoff, LastTimestamp |-> EarliestCutoff + 1]}

\* corev1.Event: the fields cleanupEvents reads.  Names are unique within a
\* listing; the k-th listed event has name k.
MkEvent(k, kind) ==
    [Name |-> k, CreationTimestamp |-> kind.CreationTimestamp,
     LastTimestamp |-> kind.LastTimestamp]
EventLists ==
    UNION {{[k \in 1..n |-> MkEvent(k, f[k])] : f \in [1..n -> EventKinds]} :
             n \in 0..MaxEvents}

NilEventList == [isNil |-> TRUE, Items |-> <<>>]
NoError == [msg |-> "nil", cause |-> "nil"]
Wrap(m, e) == [msg |-> m, cause |-> e]

VARIABLES
    pc,                \* position of the (single) thread of control
    Duration, Retries, DryRun,                     \* Config
    TotalEvents, DeletedEvents, NamespacesScanned, \* Statistics
    now,               \* time.Now()
    clientset,         \* TRUE once createClientSet returned a client
    namespaceList,     \* result of Namespaces().List
    nsIdx,             \* index of the range loop over namespaceList.Items
    eventsList,        \* cleanupEvents: eventsList (nil until a List succeeds)
    cutoffTime,        \* cleanupEvents: cutoffTime
    toDelete,          \* cleanupEvents: toDelete
    delIdx,            \* cleanupEvents: 1 + index i of the range over toDelete
    op,                \* which closure the running opWithRetries was given
    i,                 \* opWithRetries: loop counter
    err,               \* opWithRetries: err
    retErr,            \* value opWithRetries returned
    nsErr,             \* value cleanupEvents returned
    exit,              \* how the process ended: "running", "ok", "panic"
    \* ---- observation only (never read by the program) ----
    trace,             \* invocations and sleeps of the running opWithRetries
    deleteLog,         \* names given to DeleteEvent in the current namespace,
                       \* in the order of their first call
    prevCutoff,        \* cutoffTime of the last namespace classified before
                       \* the current one (0: none yet)
    failedLists,       \* number of cleanupEvents calls whose listing failed
    statsBefore,       \* <<TotalEvents, DeletedEvents>> at the entry of the
                       \* current cleanupEvents call
    removed,           \* names of the current namespace whose DeleteEvent
                       \* answered Success
    nsListCalls,       \* number of ListNamespaces calls
    reported,          \* TRUE once the statistics block was printed
    listedSum,         \* events listed by the cleanupEvents calls returned
    staleSum,          \* events classified stale by those calls
    printed,           \* the statistics block: <<namespaces scanned, total,
                       \* deleted or would-be-deleted, retained>>
    clientCalls,       \* number of createClientSet calls
    nsListResult,      \* outcome of ListNamespaces: "none", "ok", "error"
    lastNs,            \* namespace of the latest ListEvents or DeleteEvent
                       \* call (0: none yet)
    progress           \* counts of the progress lines printed by the
                       \* running cleanupEvents call

vars == <<pc, Duration, Retries, DryRun, TotalEvents, DeletedEvents,
          NamespacesScanned, now, clientset, namespaceList, nsIdx, eventsList,
          cutoffTime, toDelete, delIdx, op, i, err, retErr, nsErr, exit,
          trace, deleteLog, prevCutoff, failedLists, statsBefore, removed,
          nsListCalls, reported, listedSum, staleSum, printed,
          clientCalls, nsListResult, lastNs, progress>>

cfgVars == <<Duration, Retries, DryRun>>
statVars == <<TotalEvents, DeletedEvents, NamespacesScanned>>
localVars == <<eventsList, cutoffTime, toDelete, delIdx>>
retryVars == <<op, i, err, retErr>>
histVars == <<prevCutoff, failedLists, statsBefore, listedSum, staleSum>>
obsVars == <<trace, deleteLog, histVars, removed, nsListCalls, reported>>
runObs == <<printed, clientCalls, nsListResult, lastNs, progress>>

\* ------------------------------------------------------------ pure helpers
\* time.Time.Before, time.Time.IsZero
Before(t, u) == t < u
IsZero(t) == t = 0

\* Seconds a blocking call may take.
Ticks == {d \in 0..1 : now + d <= Now0 + MaxTicks}

\* Variant: the test of the earlier version of main (src/main.go:25).
DurationRejectedOld(d) == d <= MinDuration
\* main: the duration check (src/main.go:170).
DurationRejected(d) == d < MinDuration

\* Variant: the duration is added instead of subtracted.
CutoffTimeAdded(t, d) == t + d

\* cleanupEvents: cutoffTime := time.Now().Add(-cfg.Duration)
CutoffTime(t, d) == t - d

\* Variant: "not after the cutoff" instead of "before the cutoff".
IsStaleInclusive(event, cutoff) ==
    IF event.CreationTimestamp <= cutoff /\ IsZero(event.LastTimestamp)
    THEN TRUE
    ELSE event.LastTimestamp <= cutoff

\* cleanupEvents: the two-branch test of the classification loop.
IsStale(event, cutoff) ==
    IF Before(event.CreationTimestamp, cutoff) /\ IsZero(event.LastTimestamp)
    THEN TRUE
    ELSE Before(event.LastTimestamp, cutoff)

\* Variant: a stale event is put in front of toDelete.
ClassifyReversed(items, cutoff) ==
    LET stale == SelectSeq(items, LAMBDA event : IsStale(event, cutoff))
    IN [k \in 1..Len(stale) |-> stale[Len(stale) + 1 - k].Name]

\* cleanupEvents: the classification loop; toDelete holds the names of the
\* stale events in listing order.
Classify(items, cutoff) ==
    LET stale == SelectSeq(items, LAMBDA event : IsStale(event, cutoff))
    IN [k \in 1..Len(stale) |-> stale[k].Name]

\* Variant: the dry-run test is missing.
SkipDeletionNever(dryRun) == FALSE

\* cleanupEvents: if cfg.DryRun { return nil }
SkipDeletion(dryRun) == dryRun

\* Variant: the closure of the previous version, which returns every error
\* of eventsClient.Delete (src/main.go:100-101).
DeleteClosurePlain(res) ==
    IF res # Success THEN res ELSE NoErr

\* cleanupEvents: the closure around eventsClient.Delete.
DeleteClosure(res) ==
    IF res # Success /\ res # NotFound THEN res ELSE NoErr

\* Variant: a failed deletion is skipped and the loop goes on.
DeleteLoopNeverAborts(e) == FALSE

\* cleanupEvents: if err := opWithRetries(delete...); err != nil { return ... }
DeleteLoopAborts(e) == e # NoErr

\* Variants: one attempt too few; the success test inverted.
RetryConditionStrict(k, retries) == k < retries
ReturnsOnFailure(e) == e # NoErr

\* opWithRetries: the loop condition, the success test and the backoff.
\* Variant: one iteration more.
RetryConditionLoose(k, retries) == k <= retries + 1
RetryCondition(k, retries) == k <= retries
ReturnsOnSuccess(e) == e = NoErr
Backoff(k) == (k + 1) * BaseDelayMs

\* cleanupEvents: the statistics update after classification
\* (src/main.go:267-268).
AddTotal(total, items) == total + Len(items)
\* Variant: the stale count of this namespace replaces the counter.
AddDeletedOverwrite(deleted, td) == Len(td)
AddDeleted(deleted, td) == deleted + Len(td)

\* cleanupAllEvents: the retained count of the report (src/main.go:212).
Retained(total, deleted) == total - deleted

\* Variant: the test is made on the index i, not on i+1.
ProgressDueOnIndex(k) == (k - 1) % ProgressEvery = 0
\* cleanupEvents: the progress test after the k-th deletion, k = i+1
\* (src/main.go:287).
ProgressDue(k) == k % ProgressEvery = 0

\* ------------------------------------------------------------------- Init
Init ==
    /\ pc = "main"
    /\ Duration \in Durations
    /\ Retries \in RetriesSet
    /\ DryRun \in BOOLEAN
    /\ TotalEvents = 0 /\ DeletedEvents = 0 /\ NamespacesScanned = 0
    /\ now = Now0
    /\ clientset = FALSE
    /\ namespaceList = <<>>
    /\ nsIdx = 1
    /\ eventsList = NilEventList
    /\ cutoffTime = 0
    /\ toDelete = <<>>
    /\ delIdx = 1
    /\ op = "none" /\ i = 0 /\ err = NoErr /\ retErr = NoErr
    /\ nsErr = NoError
    /\ exit = "running"
    /\ trace = <<>> /\ deleteLog = <<>> /\ removed = {}
    /\ prevCutoff = 0 /\ failedLists = 0 /\ statsBefore = <<0, 0>>
    /\ nsListCalls = 0 /\ reported = FALSE
    /\ listedSum = 0 /\ staleSum = 0
    /\ printed = <<>> /\ clientCalls = 0 /\ nsListResult = "none"
    /\ lastNs = 0 /\ progress = <<>>

\* ---------------------------------------------------------------- actions
\* Entry of opWithRetries(op, retries): var err error; i := 0.
BeginOp(which) ==
    /\ op' = which
    /\ i' = 0
    /\ err' = NoErr
    /\ trace' = <<>>
    /\ UNCHANGED retErr

Panic ==
    /\ exit' = "panic"
    /\ pc' = "halt"

\* main, up to the call of createClientSet.
Main ==
    /\ pc = "main"
    /\ IF DurationRejected(Duration)
       THEN Panic
       ELSE pc' = "createClientSet" /\ UNCHANGED exit
    /\ UNCHANGED <<cfgVars, statVars, now, clientset, namespaceList, nsIdx,
                   localVars, retryVars, nsErr, obsVars, runObs>>

\* main: clientset, err := createClientSet(cfg); a failure panics.
CreateClientSet ==
    /\ pc = "createClientSet"
    /\ clientCalls' = clientCalls + 1
    /\ \E ok \in BOOLEAN :
         IF ok
         THEN clientset' = TRUE /\ pc' = "listNamespaces" /\ UNCHANGED exit
         ELSE Panic /\ UNCHANGED clientset
    /\ UNCHANGED <<cfgVars, statVars, now, namespaceList, nsIdx, localVars,
                   retryVars, nsErr, obsVars, printed, nsListResult, lastNs,
                   progress>>

\* Variant: the error of Namespaces().List is dropped and the loop runs over
\* the empty list.
ListNamespacesIgnoreError ==
    /\ pc = "listNamespaces"
    /\ nsListCalls' = nsListCalls + 1
    /\ \E d \in Ticks : now' = now + d
    /\ \E ok \in BOOLEAN :
         IF ok
         THEN /\ \E n \in 0..MaxNamespaces : namespaceList' = [k \in 1..n |-> k]
              /\ nsListResult' = "ok"
         ELSE /\ nsListResult' = "error"
              /\ UNCHANGED namespaceList
    /\ pc' = "nsLoop"
    /\ UNCHANGED <<cfgVars, statVars, clientset, nsIdx, localVars, retryVars,
                   nsErr, trace, deleteLog, histVars, removed, reported,
                   printed, clientCalls, lastNs, progress, exit>>

\* cleanupAllEvents: the single Namespaces().List call; on error the function
\* returns it and main panics.  Namespace k has name k.
ListNamespaces ==
    /\ pc = "listNamespaces"
    /\ nsListCalls' = nsListCalls + 1
    /\ \E d \in Ticks : now' = now + d
    /\ \E ok \in BOOLEAN :
         IF ok
         THEN /\ \E n \in 0..MaxNamespaces : namespaceList' = [k \in 1..n |-> k]
              /\ nsListResult' = "ok"
              /\ pc' = "nsLoop"
              /\ UNCHANGED exit
         ELSE /\ nsListResult' = "error"
              /\ Panic
              /\ UNCHANGED namespaceList
    /\ UNCHANGED <<cfgVars, statVars, clientset, nsIdx, localVars, retryVars,
                   nsErr, trace, deleteLog, histVars, removed, reported,
                   printed, clientCalls, lastNs, progress>>

\* cleanupAllEvents: next iteration of the namespace loop; cleanupEvents is
\* entered and calls opWithRetries with the listing closure.
EnterNamespace ==
    /\ pc = "nsLoop"
    /\ nsIdx <= Len(namespaceList)
    /\ eventsList' = NilEventList
    /\ cutoffTime' = 0
    /\ toDelete' = <<>>
    /\ delIdx' = 1
    /\ deleteLog' = <<>>
    /\ removed' = {}
    /\ BeginOp("list")
    /\ nsErr' = NoError
    /\ pc' = "opLoop"
    /\ progress' = <<>>
    /\ UNCHANGED <<cfgVars, statVars, now, clientset, namespaceList, nsIdx,
                   exit, histVars, nsListCalls, reported, printed,
                   clientCalls, nsListResult, lastNs>>

\* cleanupAllEvents: after the loop, the statistics block; return nil.
Report ==
    /\ pc = "nsLoop"
    /\ nsIdx > Len(namespaceList)
    /\ reported' = TRUE
    /\ printed' = <<NamespacesScanned, TotalEvents, DeletedEvents,
                    Retained(TotalEvents, DeletedEvents)>>
    /\ exit' = "ok"
    /\ pc' = "halt"
    /\ UNCHANGED <<cfgVars, statVars, now, clientset, namespaceList, nsIdx,
                   localVars, retryVars, nsErr, trace, deleteLog, histVars,
                   removed, nsListCalls, clientCalls, nsListResult, lastNs,
                   progress>>

\* opWithRetries: what follows err = op().
AfterInvoke(e) ==
    IF ReturnsOnSuccess(e)
    THEN retErr' = NoErr /\ pc' = "opReturned"
    ELSE UNCHANGED retErr /\ pc' = "opSleep"

\* opWithRetries, one iteration with the listing closure: eventsClient.List.
\* The client returns an empty, non-nil list together with an error.
ListEvents ==
    /\ pc = "opLoop"
    /\ op = "list"
    /\ RetryCondition(i, Retries)
    /\ \E d \in Ticks : now' = now + d
    /\ \E res \in {Success} \cup ListErrors :
         /\ trace' = Append(trace, [call |-> "List", arg |-> 0, res |-> res])
         /\ IF res = Success
            THEN \E l \in EventLists :
                    eventsList' = [isNil |-> FALSE, Items |-> l]
            ELSE eventsList' = [isNil |-> FALSE, Items |-> <<>>]
         /\ err' = (IF res = Success THEN NoErr ELSE res)
         /\ AfterInvoke(IF res = Success THEN NoErr ELSE res)
    /\ lastNs' = namespaceList[nsIdx]
    /\ UNCHANGED <<cfgVars, statVars, clientset, namespaceList, nsIdx,
                   cutoffTime, toDelete, delIdx, op, i, nsErr, exit, deleteLog,
                   histVars, removed, nsListCalls, reported, printed,
                   clientCalls, nsListResult, progress>>

\* Variant: the name is taken from the listing at the loop index.
DeleteTargetFromListing(items, td, k) == items[k].Name
\* cleanupEvents: the event name the k-th iteration of the deletion loop
\* gives to eventsClient.Delete (src/main.go:277-280).
DeleteTarget(items, td, k) == td[k]

\* cleanupEvents: eventName of the running iteration of the deletion loop.
EventName == DeleteTarget(eventsList.Items, toDelete, delIdx)

\* opWithRetries, one iteration with the deletion closure: eventsClient.Delete
\* of toDelete[delIdx], answered with one of the given results.
DeleteEventWith(results) ==
    /\ pc = "opLoop"
    /\ op = "delete"
    /\ RetryCondition(i, Retries)
    /\ \E d \in Ticks : now' = now + d
    /\ \E res \in results :
         /\ trace' = Append(trace, [call |-> "Delete", arg |-> EventName,
                                    res |-> res])
         /\ deleteLog' = IF /\ deleteLog # <<>>
                             /\ deleteLog[Len(deleteLog)] = EventName
                          THEN deleteLog
                          ELSE Append(deleteLog, EventName)
         /\ removed' = IF res = Success
                       THEN removed \cup {EventName}
                       ELSE removed
         /\ err' = DeleteClosure(res)
         /\ AfterInvoke(DeleteClosure(res))
    /\ lastNs' = namespaceList[nsIdx]
    /\ UNCHANGED <<cfgVars, statVars, clientset, namespaceList, nsIdx,
                   localVars, op, i, nsErr, exit, histVars, nsListCalls,
                   reported, printed, clientCalls, nsListResult, progress>>

\* The API server answers a Delete with success, not-found or an error.
DeleteResults == {Success, NotFound} \cup DeleteErrors
DeleteEvent == DeleteEventWith(DeleteResults)

\* opWithRetries: time.Sleep(time.Duration(i+1) * 50 * time.Millisecond); i++
Sleep ==
    /\ pc = "opSleep"
    /\ trace' = Append(trace, [call |-> "Sleep", arg |-> Backoff(i), res |-> ""])
    /\ \E d \in Ticks : now' = now + d
    /\ i' = i + 1
    /\ pc' = "opLoop"
    /\ UNCHANGED <<cfgVars, statVars, clientset, namespaceList, nsIdx,
                   localVars, op, err, retErr, nsErr, exit, deleteLog, histVars,
                   removed, nsListCalls, reported, runObs>>

\* opWithRetries: the loop condition fails; return err.
OpExhausted ==
    /\ pc = "opLoop"
    /\ ~RetryCondition(i, Retries)
    /\ retErr' = err
    /\ pc' = "opReturned"
    /\ UNCHANGED <<cfgVars, statVars, now, clientset, namespaceList, nsIdx,
                   localVars, op, i, err, nsErr, exit, obsVars, runObs>>

\* cleanupEvents, from the return of the listing opWithRetries to the first
\* deletion: error return, classification, statistics, empty and dry-run
\* returns.  A nil eventsList (no List call was made) panics at .Items.
AfterList ==
    /\ pc = "opReturned"
    /\ op = "list"
    /\ IF retErr # NoErr
       THEN /\ nsErr' = Wrap("error listing events", retErr)
            /\ pc' = "nsReturn"
            /\ UNCHANGED <<statVars, cutoffTime, toDelete, delIdx, retryVars,
                           trace, exit>>
       ELSE IF eventsList.isNil
       THEN /\ Panic
            /\ UNCHANGED <<statVars, cutoffTime, toDelete, delIdx, retryVars,
                           trace, nsErr>>
       ELSE LET cutoff == CutoffTime(now, Duration)
                td == Classify(eventsList.Items, cutoff)
            IN /\ cutoffTime' = cutoff
               /\ toDelete' = td
               /\ TotalEvents' = AddTotal(TotalEvents, eventsList.Items)
               /\ DeletedEvents' = AddDeleted(DeletedEvents, td)
               /\ UNCHANGED <<NamespacesScanned, delIdx, exit>>
               /\ IF Len(td) = 0 \/ SkipDeletion(DryRun)
                  THEN /\ nsErr' = NoError
                       /\ pc' = "nsReturn"
                       /\ UNCHANGED <<retryVars, trace>>
                  ELSE /\ BeginOp("delete")
                       /\ pc' = "opLoop"
                       /\ UNCHANGED nsErr
    /\ UNCHANGED <<cfgVars, now, clientset, namespaceList, nsIdx, eventsList,
                   deleteLog, histVars, removed, nsListCalls, reported,
                   runObs>>

\* cleanupEvents, from the return of one deletion opWithRetries to the next:
\* error return, next stale event, or the end of the loop.
AfterDelete ==
    /\ pc = "opReturned"
    /\ op = "delete"
    /\ IF DeleteLoopAborts(retErr)
       THEN /\ nsErr' = Wrap("error deleting event", retErr)
            /\ pc' = "nsReturn"
            /\ UNCHANGED <<delIdx, retryVars, trace, progress>>
       ELSE /\ progress' = IF ProgressDue(delIdx)
                           THEN Append(progress, delIdx)
                           ELSE progress
            /\ IF delIdx < Len(toDelete)
               THEN /\ delIdx' = delIdx + 1
                    /\ BeginOp("delete")
                    /\ pc' = "opLoop"
                    /\ UNCHANGED nsErr
               ELSE /\ nsErr' = NoError
                    /\ pc' = "nsReturn"
                    /\ UNCHANGED <<delIdx, retryVars, trace>>
    /\ UNCHANGED <<cfgVars, statVars, now, clientset, namespaceList, nsIdx,
                   eventsList, cutoffTime, toDelete, exit, deleteLog, histVars,
                   removed, nsListCalls, reported, printed, clientCalls,
                   nsListResult, lastNs>>

\* Number of entries of a trace that are calls of the given kind.
RECURSIVE CountCalls(_, _)
CountCalls(t, kind) ==
    IF t = <<>> THEN 0
    ELSE (IF Head(t).call = kind THEN 1 ELSE 0) + CountCalls(Tail(t), kind)

\* What is recorded when a cleanupEvents call has returned.
RecordNamespace ==
    /\ prevCutoff' = IF nsErr.msg = "error listing events" \/ eventsList.isNil
                     THEN prevCutoff ELSE cutoffTime
    /\ failedLists' = IF nsErr.msg = "error listing events"
                      THEN failedLists + 1 ELSE failedLists
    /\ statsBefore' = <<TotalEvents, DeletedEvents>>
    /\ listedSum' = IF nsErr.msg = "error listing events"
                    THEN listedSum
                    ELSE listedSum + Len(eventsList.Items)
    /\ staleSum' = staleSum + Len(toDelete)

\* The locals of cleanupEvents and opWithRetries after the calls returned.
LeaveNamespace ==
    /\ eventsList' = NilEventList
    /\ cutoffTime' = 0
    /\ toDelete' = <<>>
    /\ delIdx' = 1
    /\ op' = "none" /\ i' = 0 /\ err' = NoErr /\ retErr' = NoErr
    /\ nsErr' = NoError
    /\ trace' = <<>> /\ deleteLog' = <<>> /\ removed' = {}
    /\ progress' = <<>>

\* Variant: an error of cleanupEvents is returned by cleanupAllEvents, and
\* main panics on it.
NamespaceDoneAbortOnError ==
    /\ pc = "nsReturn"
    /\ IF nsErr # NoError
       THEN /\ Panic
            /\ UNCHANGED <<NamespacesScanned, nsIdx, histVars, localVars,
                           retryVars, nsErr, trace, deleteLog, removed,
                           progress>>
       ELSE /\ NamespacesScanned' = NamespacesScanned + 1
            /\ nsIdx' = nsIdx + 1
            /\ RecordNamespace
            /\ LeaveNamespace
            /\ pc' = "nsLoop"
            /\ UNCHANGED exit
    /\ UNCHANGED <<cfgVars, TotalEvents, DeletedEvents, now, clientset,
                   namespaceList, nsListCalls, reported, printed, clientCalls,
                   nsListResult, lastNs>>

\* cleanupAllEvents: cleanupEvents has returned; its error is only printed,
\* NamespacesScanned++ and the loop goes on.
NamespaceDone ==
    /\ pc = "nsReturn"
    /\ NamespacesScanned' = NamespacesScanned + 1
    /\ nsIdx' = nsIdx + 1
    /\ RecordNamespace
    /\ LeaveNamespace
    /\ pc' = "nsLoop"
    /\ UNCHANGED <<cfgVars, TotalEvents, DeletedEvents, now, clientset,
                   namespaceList, exit, nsListCalls, reported, printed,
                   clientCalls, nsListResult, lastNs>>

Next ==
    \/ Main
    \/ CreateClientSet
    \/ ListNamespaces
    \/ EnterNamespace
    \/ Report
    \/ ListEvents
    \/ DeleteEvent
    \/ Sleep
    \/ OpExhausted
    \/ AfterList
    \/ AfterDelete
    \/ NamespaceDone

Spec == Init /\ [][Next]_vars

TypeOK ==
    /\ pc \in {"main", "createClientSet", "listNamespaces", "nsLoop", "opLoop",
               "opSleep", "opReturned", "nsReturn", "halt"}
    /\ exit \in {"running", "ok", "panic"}
    /\ i \in 0..(MaxRetries + 1)
    /\ err \in {NoErr} \cup ApiErrors
    /\ retErr \in {NoErr} \cup ApiErrors
    /\ Len(toDelete) <= Len(eventsList.Items)
    /\ now \in Now0..(Now0 + MaxTicks)

\* The program has one thread of control and no step of it waits for
\* anything but the return of a client call or of time.Sleep: a step that
\* can be taken is taken.
FairSpec == Spec /\ WF_vars(Next)

\* ------------------------------------------- the deletion loop at full size
\* A second specification follows one cleanupEvents call in live mode from
\* the return of a listing with several hundred events, each last observed
\* before the cutoff, with every Delete answered by success: the range over
\* toDelete with its progress line (src/main.go:277-292).
LargeListings == {499, 500, 1200}
ObservedBeforeCutoff ==
    [CreationTimestamp |-> EarliestCutoff + 1, LastTimestamp |-> EarliestCutoff]
OnlySuccess == {Success}

\* The state main, cleanupAllEvents and the listing of the only namespace
\* lead to: opWithRetries has returned nil after one successful List.
LargeInit ==
    /\ pc = "opReturned"
    /\ Duration = MinDuration
    /\ Retries \in 0..MaxRetries
    /\ DryRun = FALSE
    /\ TotalEvents = 0 /\ DeletedEvents = 0 /\ NamespacesScanned = 0
    /\ now = Now0 + 1
    /\ clientset = TRUE
    /\ namespaceList = <<1>>
    /\ nsIdx = 1
    /\ \E n \in LargeListings :
          eventsList = [isNil |-> FALSE,
                        Items |-> [k \in 1..n |-> MkEvent(k, ObservedBeforeCutoff)]]
    /\ cutoffTime = 0
    /\ toDelete = <<>>
    /\ delIdx = 1
    /\ op = "list" /\ i = 0 /\ err = NoErr /\ retErr = NoErr
    /\ nsErr = NoError
    /\ exit = "running"
    /\ trace = <<[call |-> "List", arg |-> 0, res |-> Success]>>
    /\ deleteLog = <<>> /\ removed = {}
    /\ prevCutoff = 0 /\ failedLists = 0 /\ statsBefore = <<0, 0>>
    /\ nsListCalls = 1 /\ reported = FALSE
    /\ listedSum = 0 /\ staleSum = 0
    /\ printed = <<>> /\ clientCalls = 1 /\ nsListResult = "ok"
    /\ lastNs = 1 /\ progress = <<>>

\* No Delete fails.
DeleteEventOk == DeleteEventWith(OnlySuccess)

LargeNext ==
    \/ AfterList
    \/ DeleteEventOk
    \/ AfterDelete
    \/ NamespaceDone
    \/ Report

LargeSpec == LargeInit /\ [][LargeNext]_vars

\* ================================================================ claims
\* Observation helpers.
Items == eventsList.Items
InToDelete(name) == \E k \in 1..Len(toDelete) : toDelete[k] = name
ListFailed == nsErr.msg = "error listing events"
DeleteFailed == nsErr.msg = "error deleting event"

\* cleanupEvents has classified the listing of the current namespace.
Classified ==
    /\ ~eventsList.isNil
    /\ \/ op = "delete"
       \/ pc = "nsReturn" /\ ~ListFailed

\* The classification has just been done: no step was taken since.
JustClassified ==
    /\ Classified
    /\ \/ pc = "opLoop" /\ delIdx = 1 /\ trace = <<>>
       \/ pc = "nsReturn" /\ op = "list"

\* Entries of the trace of the running (or last) opWithRetries call.
IsInvocation(e) == e.call \in {"List", "Delete"}
OpSucceeded(e) == IsInvocation(e) /\ e.res \in {Success, NotFound}
OpFailed(e) == IsInvocation(e) /\ e.res \in ApiErrors
Invocations == SelectSeq(trace, IsInvocation)
SleepsOf(t) == CountCalls(t, "Sleep")
AllInvocationsFailed == \A k \in 1..Len(Invocations) : OpFailed(Invocations[k])

\* C1: an event with unset last-observed timestamp is in toDelete iff its
\* creation timestamp is strictly before the cutoff.
C1_UnsetLastStaleIffCreatedBeforeCutoff ==
    Classified =>
        \A k \in 1..Len(Items) :
            Items[k].LastTimestamp = 0 =>
                (InToDelete(Items[k].Name) <=>
                    Items[k].CreationTimestamp < cutoffTime)

\* C2: an event with set last-observed timestamp is in toDelete iff that
\* timestamp is strictly before the cutoff, whatever its creation timestamp;
\* a timestamp equal to the cutoff is not stale.
C2_SetLastStaleIffLastBeforeCutoff ==
    Classified =>
        \A k \in 1..Len(Items) :
            Items[k].LastTimestamp # 0 =>
                (InToDelete(Items[k].Name) <=>
                    Items[k].LastTimestamp < cutoffTime)

\* C2 witness: one listing with an event last observed exactly at the cutoff
\* (kept) and an event last observed before it but created at it (stale).
C2_Witness ==
    /\ Classified
    /\ \E k \in 1..Len(Items) :
          /\ Items[k].LastTimestamp = cutoffTime
          /\ ~InToDelete(Items[k].Name)
    /\ \E k \in 1..Len(Items) :
          /\ Items[k].LastTimestamp # 0
          /\ Items[k].LastTimestamp < cutoffTime
          /\ Items[k].CreationTimestamp >= cutoffTime
          /\ InToDelete(Items[k].Name)

C4_DryRunNoDeletes ==
    DryRun =>
        /\ op # "delete"
        /\ deleteLog = <<>>
        /\ removed = {}
        /\ DeletedEvents = statsBefore[2] + Len(toDelete)

\* C4 witness: a dry run returning from its second namespace, with stale
\* events counted in both and none deleted.
C4_Witness ==
    /\ DryRun
    /\ pc = "nsReturn"
    /\ nsIdx = 2
    /\ statsBefore[2] > 0
    /\ Len(toDelete) = 2
    /\ DeletedEvents = statsBefore[2] + 2
    /\ trace = <<[call |-> "List", arg |-> 0, res |-> Success]>>

\* C5: a namespace whose listing failed on every attempt does not stop the
\* run: it adds nothing to TotalEvents/DeletedEvents, is counted in
\* NamespacesScanned, no panic follows, the other namespaces are listed,
\* classified and their stale events deleted, and the run ends normally with
\* NamespacesScanned equal to the number of namespaces.
C5_NamespaceFailureIsolation ==
    (ListFailed \/ failedLists > 0) =>
        /\ exit # "panic"
        /\ NamespacesScanned = nsIdx - 1
        /\ failedLists <= NamespacesScanned
        /\ (pc = "nsReturn" /\ ListFailed) =>
              /\ Len(Invocations) = Retries + 1
              /\ AllInvocationsFailed
              /\ TotalEvents = statsBefore[1]
              /\ DeletedEvents = statsBefore[2]
              /\ deleteLog = <<>>
        /\ (pc = "nsReturn" /\ ~ListFailed) =>
              /\ TotalEvents = statsBefore[1] + Len(Items)
              /\ DeletedEvents = statsBefore[2] + Len(toDelete)
              /\ (nsErr = NoError /\ ~DryRun) => deleteLog = toDelete
        /\ pc = "halt" =>
              /\ exit = "ok"
              /\ reported
              /\ NamespacesScanned = Len(namespaceList)

\* C5 witness: after the listing of the first namespace failed, the second
\* namespace was listed and both its stale events were deleted.
C5_Witness ==
    /\ pc = "nsReturn"
    /\ ~DryRun
    /\ failedLists = 1
    /\ nsIdx = 2 /\ NamespacesScanned = 1
    /\ nsErr = NoError
    /\ toDelete = <<1, 2>>
    /\ deleteLog = <<1, 2>>
    /\ removed = {1, 2}
    /\ TotalEvents = 2 /\ DeletedEvents = 2

\* C6: a DeleteEvent answered "not found" is a success: it is the last call
\* of its opWithRetries, no sleep follows, opWithRetries returns nil, and
\* cleanupEvents returns only when the stale events are exhausted, never with
\* an error caused by it.
C6_NotFoundIsSuccess ==
    /\ nsErr.cause # NotFound
    /\ err # NotFound /\ retErr # NotFound
    /\ \A k \in 1..Len(trace) :
          (trace[k].call = "Delete" /\ trace[k].res = NotFound) =>
              /\ k = Len(trace)
              /\ pc \in {"opReturned", "nsReturn"}
              /\ err = NoErr /\ retErr = NoErr
              /\ nsErr = NoError
              /\ pc = "nsReturn" => delIdx = Len(toDelete)

\* C6 witness: the first of two stale events was answered "not found" after
\* a failed attempt, and opWithRetries returned nil.
C6_Witness ==
    /\ pc = "opReturned"
    /\ op = "delete"
    /\ delIdx = 1 /\ Len(toDelete) = 2
    /\ Len(trace) = 3
    /\ trace[1].res \in ApiErrors
    /\ trace[3].res = NotFound
    /\ retErr = NoErr

\* C7 (state part): when cleanupEvents returns a deletion error, the failed
\* event was given Retries+1 DeleteEvent calls that all failed, the error
\* returned is the last one, no DeleteEvent call was issued for the stale
\* events after it, none of those was removed by the run, and the process
\* goes on running.
C7_AbortedNamespace ==
    (pc = "nsReturn" /\ DeleteFailed) =>
        /\ ~DryRun
        /\ Len(Invocations) = Retries + 1
        /\ \A k \in 1..Len(Invocations) :
              /\ Invocations[k].call = "Delete"
              /\ Invocations[k].arg = toDelete[delIdx]
              /\ Invocations[k].res \in ApiErrors
        /\ nsErr.cause = Invocations[Len(Invocations)].res
        /\ deleteLog = SubSeq(toDelete, 1, delIdx)
        /\ removed \subseteq {toDelete[k] : k \in 1..(delIdx - 1)}
        /\ exit = "running"

\* C7 (step part): a deletion whose opWithRetries returned an error makes
\* cleanupEvents return that error at once, with no further DeleteEvent call;
\* the run then goes on with the next namespace; what was removed in the
\* namespace stays removed until cleanupEvents has returned.
C7_AbortStep ==
    /\ (pc = "opReturned" /\ op = "delete" /\ retErr # NoErr) =>
          /\ pc' = "nsReturn"
          /\ nsErr' = Wrap("error deleting event", retErr)
          /\ deleteLog' = deleteLog
          /\ removed' = removed
    /\ (pc = "nsReturn" /\ DeleteFailed) =>
          /\ pc' = "nsLoop"
          /\ nsIdx' = nsIdx + 1
          /\ NamespacesScanned' = NamespacesScanned + 1
          /\ exit' = "running"
    /\ pc # "nsReturn" => removed \subseteq removed'

\* C7: partial deletion failure aborts the remaining deletions of that
\* namespace only, keeps what was deleted, and the run continues.
C7_PartialDeletionFailure == []C7_AbortedNamespace /\ [][C7_AbortStep]_vars

\* C7 witness: the deletion of the first of two stale events failed on both
\* attempts; cleanupEvents returns with the second one never tried.
C7_Witness ==
    /\ pc = "nsReturn"
    /\ DeleteFailed
    /\ Retries = 1
    /\ delIdx = 1 /\ toDelete = <<1, 2>>
    /\ deleteLog = <<1>>
    /\ removed = {}
    /\ Len(Invocations) = 2

\* C8: for retries = N >= 0, an operation that fails on every invocation is
\* invoked exactly N+1 times and opWithRetries returns the error of the last
\* invocation.
C8_RetryExhaustion ==
    (pc = "opReturned" /\ Retries >= 0 /\ AllInvocationsFailed) =>
        /\ Len(Invocations) = Retries + 1
        /\ retErr = Invocations[Len(Invocations)].res

\* C8 witness: two failed invocations with different errors; the second
\* error is the one returned.
C8_Witness ==
    /\ pc = "opReturned"
    /\ Retries = 1
    /\ op = "list"
    /\ Len(Invocations) = 2
    /\ Invocations[1].res = "ServerTimeout"
    /\ Invocations[2].res = "Forbidden"
    /\ retErr = "Forbidden"

\* C9: the first successful invocation is the last step of opWithRetries: it
\* is the k-th invocation for some k <= retries+1, every earlier invocation
\* failed and was followed by one sleep, opWithRetries returns nil, and no
\* invocation and no sleep follows it.
C9_StopsAtFirstSuccess ==
    \A k \in 1..Len(trace) :
        OpSucceeded(trace[k]) =>
            /\ k = Len(trace)
            /\ pc \in {"opReturned", "nsReturn"}
            /\ retErr = NoErr
            /\ \A j \in 1..(k - 1) : ~OpSucceeded(trace[j])
            /\ Len(Invocations) <= Retries + 1
            /\ SleepsOf(trace) = Len(Invocations) - 1

\* C9 witness: a listing that failed once and then succeeded.
C9_Witness ==
    /\ pc = "opReturned"
    /\ op = "list"
    /\ Len(trace) = 3
    /\ OpFailed(trace[1])
    /\ trace[2].call = "Sleep"
    /\ OpSucceeded(trace[3])
    /\ retErr = NoErr

\* C10: with retries = 0 opWithRetries invokes the operation exactly once,
\* never sleeps, and returns the outcome of that invocation.
C10_ZeroRetriesNoSleep ==
    (pc = "opReturned" /\ Retries = 0) =>
        /\ Len(Invocations) = 1
        /\ SleepsOf(trace) = 0
        /\ retErr = (IF OpSucceeded(Invocations[1]) THEN NoErr
                     ELSE Invocations[1].res)

\* C11: the statistics are sums over the cleanupEvents calls: between two
\* calls and at the report TotalEvents is the number of events listed by the
\* calls whose listing succeeded and DeletedEvents the number of events they
\* classified stale; a call whose listing failed adds nothing; a call whose
\* deletion loop aborted has added its whole stale set; the report prints
\* TotalEvents - DeletedEvents as the retained count.
C11_StatisticsAdditive ==
    /\ (pc = "nsLoop" \/ reported) =>
          /\ TotalEvents = listedSum
          /\ DeletedEvents = staleSum
    /\ (pc = "nsReturn" /\ ListFailed) =>
          /\ TotalEvents = listedSum
          /\ DeletedEvents = staleSum
    /\ (pc = "nsReturn" /\ ~ListFailed) =>
          /\ TotalEvents = listedSum + Len(Items)
          /\ DeletedEvents = staleSum + Len(toDelete)
    /\ reported =>
          printed = <<NamespacesScanned, listedSum, staleSum,
                      listedSum - staleSum>>

\* C11 witness: the second namespace has two stale events, the deletion of
\* the first one exhausted its retries, and both are counted on top of what
\* the first namespace contributed.
C11_Witness ==
    /\ pc = "nsReturn"
    /\ DeleteFailed
    /\ nsIdx = 2
    /\ staleSum >= 1
    /\ Len(toDelete) = 2
    /\ delIdx = 1
    /\ removed = {}
    /\ DeletedEvents = staleSum + 2

\* C12: in live mode, what a cleanupEvents call has added to DeletedEvents
\* when it returns is the number of events its DeleteEvent calls removed
\* from the cluster (so the DeletedEvents of the report is the number of
\* events the run removed).
C12_DeletedEqualsRemoved ==
    (~DryRun /\ pc = "nsReturn") =>
        DeletedEvents - statsBefore[2] = Cardinality(removed)

\* C13: a run whose duration is below 30 seconds panics in main before
\* createClientSet is called and before any ListNamespaces, ListEvents or
\* DeleteEvent call; a duration of 30 seconds or more passes the test and
\* the run goes on to createClientSet.
C13_DurationValidation ==
    /\ Duration < MinDuration =>
          /\ pc \in {"main", "halt"}
          /\ pc = "halt" => exit = "panic"
          /\ clientCalls = 0 /\ ~clientset
          /\ nsListCalls = 0
          /\ lastNs = 0 /\ trace = <<>> /\ deleteLog = <<>>
          /\ ~reported
    /\ (Duration >= MinDuration /\ pc # "main") =>
          pc = "createClientSet" \/ clientCalls = 1

\* C13 witness: a 29 s run has panicked without any call.
C13_Witness ==
    /\ Duration = MinDuration - 1
    /\ pc = "halt" /\ exit = "panic"
    /\ clientCalls = 0
    /\ nsListCalls = 0

\* C14: ListNamespaces is called at most once; when it fails the process
\* panics after that one call with no ListEvents or DeleteEvent call made,
\* every statistics counter zero and no statistics block printed.
C14_NamespaceListFailureFatal ==
    /\ nsListCalls <= 1
    /\ nsListResult = "error" =>
          /\ nsListCalls = 1
          /\ pc = "halt" /\ exit = "panic"
          /\ lastNs = 0 /\ trace = <<>> /\ deleteLog = <<>>
          /\ TotalEvents = 0 /\ DeletedEvents = 0 /\ NamespacesScanned = 0
          /\ ~reported /\ printed = <<>>

\* C14 witness: the client was built and the namespace listing failed.
C14_Witness ==
    /\ nsListResult = "error"
    /\ clientset
    /\ nsListCalls = 1
    /\ exit = "panic"

\* C15 (state part): every ListEvents and DeleteEvent call made so far was
\* for the current namespace or an earlier one, and between two namespaces
\* for an earlier one only; toDelete is in listing order; the names given to
\* DeleteEvent so far are the first entries of toDelete in that order, up to
\* the one the deletion loop is at; every DeleteEvent call of the running
\* opWithRetries is for that one.
C15_Order ==
    /\ lastNs <= nsIdx
    /\ pc = "nsLoop" => lastNs < nsIdx
    /\ (Invocations # <<>> \/ deleteLog # <<>>) =>
          lastNs = namespaceList[nsIdx]
    /\ \A j, k \in 1..Len(toDelete) : j < k => toDelete[j] < toDelete[k]
    /\ Len(deleteLog) <= Len(toDelete)
    /\ deleteLog = SubSeq(toDelete, 1, Len(deleteLog))
    /\ op = "delete" => Len(deleteLog) \in {delIdx - 1, delIdx}
    /\ \A k \in 1..Len(trace) :
          trace[k].call = "Delete" => trace[k].arg = toDelete[delIdx]

\* C15 (step part): the namespace of the calls never goes back and advances
\* by one at most; the namespace loop advances only when cleanupEvents has
\* returned; the first DeleteEvent call for a stale event other than the
\* first is made only when the opWithRetries of the one listed before it has
\* returned nil, which it does on success or not-found only.
C15_Step ==
    /\ lastNs' >= lastNs
    /\ lastNs' # lastNs =>
          (lastNs' = lastNs + 1 /\ lastNs' = namespaceList[nsIdx])
    /\ nsIdx' # nsIdx => (pc = "nsReturn" /\ nsIdx' = nsIdx + 1)
    /\ (Len(deleteLog') > Len(deleteLog) /\ deleteLog # <<>>) =>
          /\ retErr = NoErr
          /\ trace = <<>>
          /\ deleteLog' = Append(deleteLog, toDelete[Len(deleteLog) + 1])

\* C15: namespaces are processed one at a time in enumeration order and the
\* stale events of a namespace are deleted one at a time in listing order,
\* each only after the one before it was deleted or found gone.
C15_SequentialOrder == []C15_Order /\ [][C15_Step]_vars

\* C15 witness: in the second namespace the deletion loop is at the second
\* of two stale events, after calls were made for the first namespace.
C15_Witness ==
    /\ nsIdx = 2
    /\ lastNs = 2
    /\ staleSum >= 1
    /\ op = "delete"
    /\ toDelete = <<1, 2>>
    /\ delIdx = 2
    /\ deleteLog = <<1, 2>>

\* Deletions of the current namespace that are complete, progress test made.
Done == IF pc \in {"nsReturn"} THEN Len(toDelete) ELSE delIdx - 1

\* C16: in live mode, with n stale events and no failing Delete, every
\* opWithRetries of the deletion loop makes one DeleteEvent call, for the
\* stale event the loop is at; the progress lines printed after k deletions
\* are those of the multiples of 500 up to k; when cleanupEvents returns, it
\* returns nil, each of the n stale events was given to DeleteEvent once, in
\* order, and was removed.
C16_DeleteCountAndProgress ==
    (~DryRun /\ (op = "delete" \/ pc = "nsReturn") /\ ~DeleteFailed) =>
        /\ progress = [j \in 1..(Done \div ProgressEvery) |-> j * ProgressEvery]
        /\ pc \in {"opLoop", "opReturned"} =>
              /\ Len(trace) <= 1
              /\ Len(trace) = 1 =>
                    trace[1] = [call |-> "Delete", arg |-> toDelete[delIdx],
                                res |-> Success]
              /\ Len(deleteLog) = delIdx - 1 + Len(trace)
              /\ (pc = "opReturned") = (Len(trace) = 1)
        /\ pc = "nsReturn" =>
              /\ nsErr = NoError
              /\ deleteLog = toDelete
              /\ removed = {toDelete[k] : k \in 1..Len(toDelete)}
              /\ Cardinality(removed) = Len(toDelete)

\* C16 witness: cleanupEvents has returned after 500 stale events were
\* deleted by 500 DeleteEvent calls, with one progress line, after the 500th.
C16_Witness ==
    /\ pc = "nsReturn"
    /\ Len(toDelete) = ProgressEvery
    /\ deleteLog = toDelete
    /\ Cardinality(removed) = ProgressEvery
    /\ progress = <<ProgressEvery>>

\* Invocations among the first k entries of the trace.
InvocationsUpTo(k) == Len(SelectSeq(SubSeq(trace, 1, k), IsInvocation))

\* C17: in opWithRetries the wait after the k-th failed invocation lasts
\* k * 50 ms; once opWithRetries has returned, every wait was followed by
\* another invocation, so that retries+1 failed invocations come with
\* exactly `retries` waits.
C17_LinearBackoff ==
    /\ \A k \in 1..Len(trace) :
          trace[k].call = "Sleep" =>
              /\ k > 1
              /\ OpFailed(trace[k - 1])
              /\ trace[k].arg = InvocationsUpTo(k) * BaseDelayMs
    /\ pc = "opReturned" =>
          /\ \A k \in 1..Len(trace) :
                trace[k].call = "Sleep" =>
                    (k < Len(trace) /\ IsInvocation(trace[k + 1]))
          /\ (Invocations # <<>> /\ Len(Invocations) = Retries + 1
                /\ AllInvocationsFailed) =>
                SleepsOf(trace) = Retries

\* No name occurs twice in a sequence.
NoDuplicates(q) == \A j, k \in 1..Len(q) : q[j] = q[k] => j = k

\* C18 (state part): with retries >= 0 an opWithRetries call makes at most
\* retries+1 invocations, ListEvents is called by the listing opWithRetries
\* only and DeleteEvent by the deleting ones only, and no stale event is
\* given to a second opWithRetries.
C18_CallBound ==
    Retries >= 0 =>
        /\ Len(Invocations) <= Retries + 1
        /\ \A k \in 1..Len(trace) :
              /\ trace[k].call = "List" => op = "list"
              /\ trace[k].call = "Delete" => op = "delete"
        /\ NoDuplicates(toDelete)
        /\ NoDuplicates(deleteLog)

\* C18 (step part): a namespace is listed by one opWithRetries call, the one
\* cleanupEvents starts with; each deleting opWithRetries call is for the
\* next stale event.
C18_OneCallEach ==
    /\ (op' = "list" /\ (op # "list" \/ nsIdx' # nsIdx)) =>
          (pc = "nsLoop" /\ nsIdx' = nsIdx)
    /\ (op = "list" /\ op' = "list") => nsIdx' = nsIdx
    /\ (op = "delete" /\ op' = "delete" /\ trace' = <<>> /\ pc' = "opLoop"
           /\ pc = "opReturned") => delIdx' = delIdx + 1

\* C18: once ListNamespaces has succeeded, a run with retries >= 0 reaches
\* the statistics report and returns normally, with at most retries+1
\* ListEvents calls per namespace and retries+1 DeleteEvent calls per stale
\* event.
C18_RunCompletion ==
    /\ []C18_CallBound
    /\ [][C18_OneCallEach]_vars
    /\ ((nsListResult = "ok" /\ Retries >= 0)
            ~> (pc = "halt" /\ exit = "ok" /\ reported))

\* C18 witness: a run over two namespaces with retries has returned
\* normally after a listing that failed on every attempt and a namespace
\* with stale events.
C18_Witness ==
    /\ pc = "halt" /\ exit = "ok" /\ reported
    /\ Retries = MaxRetries
    /\ NamespacesScanned = 2
    /\ failedLists = 1
    /\ staleSum >= 1

\* C19: whatever the retries setting, a returned opWithRetries call has
\* invoked the operation at least once and has returned nil only if its
\* last invocation succeeded; a listing opWithRetries that returned nil has
\* left a listing in eventsList.
C19_InvokedAtLeastOnce ==
    pc = "opReturned" =>
        /\ Len(Invocations) >= 1
        /\ retErr = NoErr => OpSucceeded(Invocations[Len(Invocations)])
        /\ (op = "list" /\ retErr = NoErr) => ~eventsList.isNil

\* The listing of the current namespace holds a stale event of that name.
ListedStale(name) ==
    \E j \in 1..Len(Items) :
        /\ Items[j].Name = name
        /\ IsStale(Items[j], cutoffTime)

\* C20: every DeleteEvent call is for the namespace the loop is at, after a
\* ListEvents call for that namespace succeeded, and names an event of that
\* listing which the classifier put in toDelete; no call names a fresh
\* event, and none is made for a namespace whose listing failed.
C20_DeleteTargetsListedStale ==
    /\ \A k \in 1..Len(deleteLog) :
          /\ ListedStale(deleteLog[k])
          /\ InToDelete(deleteLog[k])
    /\ \A k \in 1..Len(trace) :
          trace[k].call = "Delete" =>
              /\ ListedStale(trace[k].arg)
              /\ InToDelete(trace[k].arg)
    /\ \A name \in removed : ListedStale(name)
    /\ deleteLog # <<>> =>
          /\ ~eventsList.isNil
          /\ ~ListFailed
          /\ lastNs = namespaceList[nsIdx]
    /\ (ListFailed \/ eventsList.isNil) => (deleteLog = <<>> /\ removed = {})

\* C20 witness: in the second namespace, whose listing holds a fresh event
\* followed by a stale one, the stale one was deleted; the listing of the
\* first namespace had failed.
C20_Witness ==
    /\ nsIdx = 2
    /\ failedLists = 1
    /\ pc = "opReturned"
    /\ op = "delete"
    /\ Len(Items) = 2
    /\ ~IsStale(Items[1], cutoffTime)
    /\ toDelete = <<2>>
    /\ deleteLog = <<2>>
    /\ removed = {2}

====
